---- MODULE Spec2Model ----
(***************************************************************************)
(* A model of the advanced task manager component                          *)
(* (components/advanced-task-manager.tsx): the tasks reducer, the          *)
(* filtered and sorted view, the add / edit / tag forms with their local   *)
(* state, drag and drop reordering and the localStorage load / save        *)
(* effects.                                                                *)
(*                                                                         *)
(* Representation.  JavaScript strings are TLA+ strings.  A Date object is *)
(* the pair <<"Date", ms>>, the ISO string JSON.stringify writes for it is *)
(* <<"Iso", ms>> and null is <<"Null">>, so that a date left as a string   *)
(* is a different value from the Date of the same instant.  A nullable     *)
(* filter or form slot is <<>> (null) or <<v>>.  The text in the storage   *)
(* slot is the value tree it encodes, a record; a text that is not JSON is *)
(* the record [text |-> ...]; a property that is undefined is a field the  *)
(* record does not have.                                                   *)
(***************************************************************************)
EXTENDS Integers, Sequences, FiniteSets, TLC

VARIABLES
    state,          \* useReducer state: [tasks, tags]
    items,          \* TaskItem instances (keyed by task id): their editedTask
    newTask,        \* AddTaskForm.newTask
    isOpen,         \* AddTaskForm.isOpen
    newTag,         \* TagManager.newTag
    editingTag,     \* TagManager.editingTag: <<>> or <<tag>>
    statusFilter,   \* "all" | "completed" | "active"
    priorityFilter, \* <<>> or <<n>>
    tagFilter,      \* <<>> or <<id>>
    sortBy,         \* "dueDate" | "priority" | "name" | "createdAt"
    searchQuery,    \* the search box
    slot,           \* localStorage["advancedTasks"]: <<>> or <<json>>
    now,            \* the clock, Date.now()
    pc,             \* "mount" | "mountSave" | "render" | "idle" | "crashed"
    pending,        \* the action queued by the load effect: <<>> or <<action>>
    savedTasks,     \* what the load effect read from the slot: <<>> or <<text>>
    closed,         \* the state the previous page session ended with: <<>> or <<st>>
    prev,           \* the reducer state before the last handler ran
    last,           \* the last handler that ran, with its arguments
    budget          \* number of user events the behaviour may still take

vars == <<state, items, newTask, isOpen, newTag, editingTag, statusFilter,
          priorityFilter, tagFilter, sortBy, searchQuery, slot, now, pc,
          pending, savedTasks, closed, prev, last, budget>>

(***************************************************************************)
(* Bounds                                                                  *)
(***************************************************************************)
MaxSteps == 2        \* user events in one behaviour of Spec
MaxCreateSteps == 5  \* user events in one behaviour of SpecCreate
MaxIntents == 2      \* intents in one behaviour of SpecReducer
MaxLen == 2          \* tasks in an initial state of SpecReducer
MaxLoadSteps == 2    \* user events in one behaviour of SpecLoad
MaxViewSteps == 1    \* user events in one behaviour of SpecView

(***************************************************************************)
(* Dates and strings                                                       *)
(***************************************************************************)
Null == <<"Null">>
Date(t) == <<"Date", t>>
Iso(t) == <<"Iso", t>>
IsDate(v) == Len(v) = 2 /\ v[1] = "Date"
IsIso(v) == Len(v) = 2 /\ v[1] = "Iso"
getTime(d) == d[2]

DayMs == 86400000
StartClock == 1000000000

UpperCase == "ABCDEFGHIJKLMNOPQRSTUVWXYZ"
LowerCase == "abcdefghijklmnopqrstuvwxyz"
CharAt(s, i) == SubSeq(s, i, i)
LowerOf == [c \in {CharAt(UpperCase, i) : i \in 1..26} |->
              CharAt(LowerCase, CHOOSE i \in 1..26 : CharAt(UpperCase, i) = c)]
LowerChar(c) == IF c \in DOMAIN LowerOf THEN LowerOf[c] ELSE c

RECURSIVE toLowerCase(_)
toLowerCase(s) ==
    IF s = "" THEN ""
    ELSE LowerChar(CharAt(s, 1)) \o toLowerCase(SubSeq(s, 2, Len(s)))

RECURSIVE trimStart(_)
trimStart(s) ==
    IF s # "" /\ CharAt(s, 1) = " " THEN trimStart(SubSeq(s, 2, Len(s))) ELSE s

RECURSIVE trimEnd(_)
trimEnd(s) ==
    IF s # "" /\ CharAt(s, Len(s)) = " " THEN trimEnd(SubSeq(s, 1, Len(s) - 1)) ELSE s

trim(s) == trimEnd(trimStart(s))

includes(s, q) ==
    \E i \in 1..(Len(s) - Len(q) + 1) : SubSeq(s, i, i + Len(q) - 1) = q

\* Collation order of the characters that occur: space, then the letters,
\* a letter's lower case before its upper case.
Collation == " aAbBcCdDeEfFgGhHiIjJkKlLmMnNoOpPqQrRsStTuUvVwWxXyYzZ"
Rank(c) == IF \E i \in 1..Len(Collation) : CharAt(Collation, i) = c
           THEN CHOOSE i \in 1..Len(Collation) : CharAt(Collation, i) = c
           ELSE 0

\* Lexicographic comparison of two strings by the rank of their characters,
\* with or without regard to case: -1, 0 or 1.
RECURSIVE CompareBy(_, _, _)
CompareBy(cased, a, b) ==
    IF a = "" /\ b = "" THEN 0
    ELSE IF a = "" THEN -1
    ELSE IF b = "" THEN 1
    ELSE LET ka == IF cased THEN Rank(CharAt(a, 1)) ELSE Rank(LowerChar(CharAt(a, 1)))
             kb == IF cased THEN Rank(CharAt(b, 1)) ELSE Rank(LowerChar(CharAt(b, 1)))
         IN IF ka < kb THEN -1
            ELSE IF ka > kb THEN 1
            ELSE CompareBy(cased, SubSeq(a, 2, Len(a)), SubSeq(b, 2, Len(b)))

\* String.prototype.localeCompare: letters first without regard to case,
\* then lower case before upper case.
localeCompare(a, b) ==
    LET p == CompareBy(FALSE, a, b)
    IN IF p # 0 THEN p ELSE CompareBy(TRUE, a, b)

(***************************************************************************)
(* Array helpers                                                           *)
(***************************************************************************)
Range(s) == {s[i] : i \in 1..Len(s)}

\* Array.prototype.filter
RECURSIVE filter(_, _)
filter(s, keep) ==
    IF s = <<>> THEN <<>>
    ELSE IF Head(s) \in keep THEN <<Head(s)>> \o filter(Tail(s), keep)
    ELSE filter(Tail(s), keep)

\* Array.prototype.splice(i, 1) and splice(i, 0, x), with 0-based i;
\* a start beyond the length is clamped to the length.
removeAt(s, i) ==
    IF i >= Len(s) THEN s ELSE SubSeq(s, 1, i) \o SubSeq(s, i + 2, Len(s))
insertAt(s, i, x) ==
    LET k == IF i > Len(s) THEN Len(s) ELSE i
    IN SubSeq(s, 1, k) \o <<x>> \o SubSeq(s, k + 1, Len(s))

(***************************************************************************)
(* The reducer                                                             *)
(***************************************************************************)
\* Faulty variants of ToggleOne: one that never clears completedAt, one that
\* sets completed instead of flipping it.
ToggleOneNeverClears(task, date) ==
    [task EXCEPT !.completed = ~task.completed,
                 !.completedAt = IF ~task.completed THEN date ELSE @]
ToggleOneOnlySets(task, date) ==
    [task EXCEPT !.completed = TRUE, !.completedAt = date]

ToggleOne(task, date) ==
    [task EXCEPT !.completed = ~task.completed,
                 !.completedAt = IF ~task.completed THEN date ELSE Null]

\* A faulty variant of StripTag: it removes the first occurrence only.
StripTagFirstOnly(task, id) ==
    IF \E i \in 1..Len(task.tags) : task.tags[i] = id
    THEN LET k == CHOOSE i \in 1..Len(task.tags) :
                     /\ task.tags[i] = id
                     /\ \A j \in 1..(i - 1) : task.tags[j] # id
         IN [task EXCEPT !.tags = SubSeq(@, 1, k - 1) \o SubSeq(@, k + 1, Len(@))]
    ELSE task

StripTag(task, id) ==
    [task EXCEPT !.tags = filter(task.tags, Range(task.tags) \ {id})]

\* A faulty variant of tasksReducer: EDIT_TASK and EDIT_TAG add the payload
\* when no item has its id.
tasksReducerUpserts(st, action) ==
    CASE action.type = "ADD_TASK" ->
           [st EXCEPT !.tasks = Append(st.tasks, action.payload)]
      [] action.type = "TOGGLE_TASK" ->
           [st EXCEPT !.tasks =
              [i \in 1..Len(st.tasks) |->
                 IF st.tasks[i].id = action.payload.id
                 THEN ToggleOne(st.tasks[i], action.payload.date)
                 ELSE st.tasks[i]]]
      [] action.type = "DELETE_TASK" ->
           [st EXCEPT !.tasks =
              filter(st.tasks, {t \in Range(st.tasks) : t.id # action.payload})]
      [] action.type = "EDIT_TASK" ->
           IF \E i \in 1..Len(st.tasks) : st.tasks[i].id = action.payload.id
           THEN [st EXCEPT !.tasks =
                   [i \in 1..Len(st.tasks) |->
                      IF st.tasks[i].id = action.payload.id
                      THEN action.payload ELSE st.tasks[i]]]
           ELSE [st EXCEPT !.tasks = Append(st.tasks, action.payload)]
      [] action.type = "REPLACE_ALL" -> action.payload
      [] action.type = "REORDER_TASKS" ->
           [st EXCEPT !.tasks = action.payload]
      [] action.type = "ADD_TAG" ->
           [st EXCEPT !.tags = Append(st.tags, action.payload)]
      [] action.type = "EDIT_TAG" ->
           IF \E i \in 1..Len(st.tags) : st.tags[i].id = action.payload.id
           THEN [st EXCEPT !.tags =
                   [i \in 1..Len(st.tags) |->
                      IF st.tags[i].id = action.payload.id
                      THEN action.payload ELSE st.tags[i]]]
           ELSE [st EXCEPT !.tags = Append(st.tags, action.payload)]
      [] action.type = "DELETE_TAG" ->
           [tags |-> filter(st.tags, {g \in Range(st.tags) : g.id # action.payload}),
            tasks |-> [i \in 1..Len(st.tasks) |-> StripTag(st.tasks[i], action.payload)]]
      [] OTHER -> st

tasksReducer(st, action) ==
    CASE action.type = "ADD_TASK" ->
           [st EXCEPT !.tasks = Append(st.tasks, action.payload)]
      [] action.type = "TOGGLE_TASK" ->
           [st EXCEPT !.tasks =
              [i \in 1..Len(st.tasks) |->
                 IF st.tasks[i].id = action.payload.id
                 THEN ToggleOne(st.tasks[i], action.payload.date)
                 ELSE st.tasks[i]]]
      [] action.type = "DELETE_TASK" ->
           [st EXCEPT !.tasks =
              filter(st.tasks, {t \in Range(st.tasks) : t.id # action.payload})]
      [] action.type = "EDIT_TASK" ->
           [st EXCEPT !.tasks =
              [i \in 1..Len(st.tasks) |->
                 IF st.tasks[i].id = action.payload.id
                 THEN action.payload ELSE st.tasks[i]]]
      [] action.type = "REPLACE_ALL" -> action.payload
      [] action.type = "REORDER_TASKS" ->
           [st EXCEPT !.tasks = action.payload]
      [] action.type = "ADD_TAG" ->
           [st EXCEPT !.tags = Append(st.tags, action.payload)]
      [] action.type = "EDIT_TAG" ->
           [st EXCEPT !.tags =
              [i \in 1..Len(st.tags) |->
                 IF st.tags[i].id = action.payload.id
                 THEN action.payload ELSE st.tags[i]]]
      [] action.type = "DELETE_TAG" ->
           [tags |-> filter(st.tags, {g \in Range(st.tags) : g.id # action.payload}),
            tasks |-> [i \in 1..Len(st.tasks) |-> StripTag(st.tasks[i], action.payload)]]
      [] OTHER -> st

(***************************************************************************)
(* The displayed sequence                                                  *)
(***************************************************************************)
\* The comparator of each sort key: negative when a goes before b.
compare(key, a, b) ==
    CASE key = "dueDate" -> getTime(a.dueDate) - getTime(b.dueDate)
      [] key = "priority" -> b.priority - a.priority
      [] key = "name" -> localeCompare(a.name, b.name)
      [] key = "createdAt" -> getTime(b.createdAt) - getTime(a.createdAt)
      [] OTHER -> 0

\* A faulty variant of insertSorted: x goes before the elements it ties with.
RECURSIVE insertSortedBeforeTies(_, _, _)
insertSortedBeforeTies(key, sorted, x) ==
    IF sorted = <<>> THEN <<x>>
    ELSE LET n == Len(sorted)
         IN IF compare(key, sorted[n], x) < 0 THEN Append(sorted, x)
            ELSE Append(insertSortedBeforeTies(key, SubSeq(sorted, 1, n - 1), x), sorted[n])

\* Array.prototype.sort is stable: x goes after the last element that does
\* not compare greater than it.
RECURSIVE insertSorted(_, _, _)
insertSorted(key, sorted, x) ==
    IF sorted = <<>> THEN <<x>>
    ELSE LET n == Len(sorted)
         IN IF compare(key, sorted[n], x) <= 0 THEN Append(sorted, x)
            ELSE Append(insertSorted(key, SubSeq(sorted, 1, n - 1), x), sorted[n])

RECURSIVE sort(_, _)
sort(key, s) ==
    IF s = <<>> THEN <<>>
    ELSE insertSorted(key, sort(key, SubSeq(s, 1, Len(s) - 1)), s[Len(s)])

\* A faulty variant of matchesStatus: "active" keeps every task.
matchesStatusCompletedOnly(task, status) == status = "completed" => task.completed

matchesSearch(task, q) ==
    trim(q) # "" =>
        \/ includes(toLowerCase(task.name), toLowerCase(q))
        \/ includes(toLowerCase(task.description), toLowerCase(q))
matchesStatus(task, status) ==
    /\ status = "completed" => task.completed
    /\ status = "active" => ~task.completed
matchesPriority(task, pf) == pf # <<>> => task.priority = pf[1]
matchesTag(task, tf) == tf # <<>> => tf[1] \in Range(task.tags)

filteredAndSortedTasks(tasks, q, status, pf, tf, key) ==
    sort(key, filter(tasks,
        {t \in Range(tasks) : /\ matchesSearch(t, q)
                              /\ matchesStatus(t, status)
                              /\ matchesPriority(t, pf)
                              /\ matchesTag(t, tf)}))

Displayed(st) ==
    filteredAndSortedTasks(st.tasks, searchQuery, statusFilter, priorityFilter,
                           tagFilter, sortBy)

(***************************************************************************)
(* TaskAnalytics                                                           *)
(***************************************************************************)
\* new Date(d) with setHours(0, 0, 0, 0), as a time value
startOfDay(t) == t - (t % DayMs)

totalTasks(tasks) == Len(tasks)
completedTasks(tasks) == Len(filter(tasks, {x \in Range(tasks) : x.completed}))

\* (completedTasks / totalTasks) * 100 as the fraction <<numerator, denominator>>
completionRate(tasks) ==
    IF totalTasks(tasks) > 0
    THEN <<completedTasks(tasks) * 100, totalTasks(tasks)>>
    ELSE <<0, 1>>

overdueTasks(tasks, t) ==
    Len(filter(tasks, {x \in Range(tasks) :
        ~x.completed /\ startOfDay(getTime(x.dueDate)) < startOfDay(t)}))
dueTodayTasks(tasks, t) ==
    Len(filter(tasks, {x \in Range(tasks) :
        ~x.completed /\ startOfDay(getTime(x.dueDate)) = startOfDay(t)}))
upcomingTasks(tasks, t) ==
    Len(filter(tasks, {x \in Range(tasks) :
        ~x.completed /\ startOfDay(getTime(x.dueDate)) > startOfDay(t)}))

TaskAnalytics(tasks, t) ==
    [totalTasks |-> totalTasks(tasks),
     completedTasks |-> completedTasks(tasks),
     completionRate |-> completionRate(tasks),
     overdueTasks |-> overdueTasks(tasks, t),
     dueTodayTasks |-> dueTodayTasks(tasks, t),
     upcomingTasks |-> upcomingTasks(tasks, t)]

\* A faulty variant of AnalyticsTasks: the analytics get the displayed tasks.
AnalyticsTasksDisplayed(st) == Displayed(st)

\* <TaskAnalytics tasks={state.tasks} />
AnalyticsTasks(st) == st.tasks

Analytics == TaskAnalytics(AnalyticsTasks(state), now)

(***************************************************************************)
(* The built-in seed state and the initial form contents                   *)
(***************************************************************************)
SeedTasks(t) == <<
    [id |-> "1", name |-> "Complete React Project",
     description |-> "Finish developing the advanced task manager component",
     dueDate |-> Date(t + 3 * DayMs), completed |-> FALSE, priority |-> 4,
     tags |-> <<"1">>, createdAt |-> Date(t - 2 * DayMs), completedAt |-> Null,
     position |-> 0],
    [id |-> "2", name |-> "Read React Hooks Book",
     description |-> "Read chapters 3-5 of the book",
     dueDate |-> Date(t + 7 * DayMs), completed |-> FALSE, priority |-> 2,
     tags |-> <<"2">>, createdAt |-> Date(t - 5 * DayMs), completedAt |-> Null,
     position |-> 1],
    [id |-> "3", name |-> "Update Resume",
     description |-> "Add new skills and projects",
     dueDate |-> Date(t - 2 * DayMs), completed |-> TRUE, priority |-> 3,
     tags |-> <<"3">>, createdAt |-> Date(t - 10 * DayMs),
     completedAt |-> Date(t - 1 * DayMs), position |-> 2],
    [id |-> "4", name |-> "Prepare for Interview",
     description |-> "Research company and practice common questions",
     dueDate |-> Date(t + 1 * DayMs), completed |-> FALSE, priority |-> 5,
     tags |-> <<"1", "3">>, createdAt |-> Date(t - 3 * DayMs), completedAt |-> Null,
     position |-> 3] >>

SeedTags == <<
    [id |-> "1", name |-> "Work", color |-> "#3b82f6"],
    [id |-> "2", name |-> "Learning", color |-> "#10b981"],
    [id |-> "3", name |-> "Personal", color |-> "#8b5cf6"] >>

SeedState(t) == [tasks |-> SeedTasks(t), tags |-> SeedTags]

EmptyNewTask(t) ==
    [name |-> "", description |-> "", dueDate |-> Date(t), completed |-> FALSE,
     priority |-> 3, tags |-> <<>>]

EmptyNewTag == [name |-> "", color |-> "#3b82f6"]

(***************************************************************************)
(* What the user can type or pick                                          *)
(***************************************************************************)
NameInputs == {"", " ", "Zed"}
EditNameInputs == {"", "Plan"}
DescriptionInputs == {"notes"}
PriorityInputs == {"1", "5"}
PriorityFilterOptions == {"0", "2", "5"}
TagNameInputs == {"", "Home"}
ColorInputs == {"#ef4444"}
SearchInputs == {"", " ", "READ", "skills"}
StatusOptions == {"all", "completed", "active"}
SortOptions == {"dueDate", "priority", "name", "createdAt"}
\* The calendar hands over the start of the picked day: yesterday or today.
DueInputs(t) == {Date(t - (t % DayMs) - DayMs), Date(t - (t % DayMs))}

(***************************************************************************)
(* TaskItem instances: one per displayed task, keyed by the task's id.  An *)
(* instance keeps its editedTask from the render that mounted it.          *)
(***************************************************************************)
FirstWithId(tasks, id) ==
    tasks[CHOOSE i \in 1..Len(tasks) :
            /\ tasks[i].id = id
            /\ \A j \in 1..(i - 1) : tasks[j].id # id]

Mount(old, shown) ==
    [id \in {t.id : t \in Range(shown)} |->
        IF id \in DOMAIN old THEN old[id] ELSE FirstWithId(shown, id)]

(***************************************************************************)
(* The persistence bridge                                                  *)
(***************************************************************************)
\* Date.prototype.toJSON
toJSON(v) == IF IsDate(v) THEN Iso(getTime(v)) ELSE v

\* JSON.stringify(state), as the value tree the text encodes
stringify(st) ==
    [tasks |-> [i \in 1..Len(st.tasks) |->
                  [st.tasks[i] EXCEPT !.dueDate = toJSON(@),
                                      !.createdAt = toJSON(@),
                                      !.completedAt = toJSON(@)]],
     tags |-> st.tags]

\* new Date(v) of a JSON value: an ISO string or null
NewDate(v) == IF v = Null THEN Date(0) ELSE Date(getTime(v))

\* { tasks, tags: parsedData.tags }: tags is undefined when the parsed data
\* has no tags
withTags(tasks, parsedData) ==
    IF "tags" \in DOMAIN parsedData
    THEN [tasks |-> tasks, tags |-> parsedData.tags]
    ELSE [tasks |-> tasks]

\* A faulty variant of tasksWithDates: completedAt is left as parsed.
tasksWithDatesKeepsString(parsedData) ==
    withTags([i \in 1..Len(parsedData.tasks) |->
                 [parsedData.tasks[i] EXCEPT !.dueDate = NewDate(@),
                                             !.createdAt = NewDate(@)]],
             parsedData)

\* the load effect's tasksWithDates
tasksWithDates(parsedData) ==
    withTags([i \in 1..Len(parsedData.tasks) |->
                 [parsedData.tasks[i] EXCEPT
                     !.dueDate = NewDate(@),
                     !.createdAt = NewDate(@),
                     !.completedAt = IF @ # Null THEN NewDate(@) ELSE Null]],
             parsedData)

\* JSON.parse(text) throws a SyntaxError
parseThrows(text) == "text" \in DOMAIN text

\* parsedData.tasks.map throws a TypeError: parsedData has no tasks
mapThrows(parsedData) == "tasks" \notin DOMAIN parsedData

\* if (savedTasks): the slot is not empty and its text is not the empty string
truthy(saved) == saved # <<>> /\ ~(parseThrows(saved[1]) /\ saved[1].text = "")

\* the load effect's try block: the action it dispatches, none when the
\* block throws and the catch logs the error
loadAction(text) ==
    IF parseThrows(text) \/ mapThrows(text) THEN <<>>
    ELSE <<[type |-> "REPLACE_ALL", payload |-> tasksWithDates(text)]>>

\* the render throws a TypeError at state.tags.map: state.tags is undefined
renderThrows(st) == "tags" \notin DOMAIN st

(***************************************************************************)
(* Handlers.  A dispatch, the render that follows it (which mounts and     *)
(* unmounts TaskItem instances) and the save effect of that render are one *)
(* step.                                                                   *)
(***************************************************************************)
formVars == <<newTask, isOpen>>
tagVars == <<newTag, editingTag>>
filterVars == <<statusFilter, priorityFilter, tagFilter, sortBy, searchQuery>>
bootVars == <<pc, pending, savedTasks, closed>>

\* Number.parseInt of a select option
parseInt(value) == CHOOSE n \in 0..9 : ToString(n) = value

TagIds(st) == {st.tags[i].id : i \in 1..Len(st.tags)}
TaskIds(st) == {st.tasks[i].id : i \in 1..Len(st.tasks)}

\* A user event: it happens once the component has started, and is recorded.
Record(op, arg) ==
    /\ pc = "idle"
    /\ budget > 0
    /\ budget' = budget - 1
    /\ prev' = state
    /\ last' = [op |-> op, arg |-> arg]

\* A faulty variant of SaveEffect: it writes the tags of the state before
\* the change.
SaveEffectStaleTags(st) == slot' = <<[stringify(st) EXCEPT !.tags = state.tags]>>

\* the save effect: localStorage.setItem("advancedTasks", JSON.stringify(state))
SaveEffect(st) == slot' = <<stringify(st)>>

\* dispatch(action), the re-render and the save effect
Dispatch(action) ==
    LET st == tasksReducer(state, action)
    IN /\ state' = st
       /\ items' = Mount(items, Displayed(st))
       /\ SaveEffect(st)

\* a change of one TaskItem's editedTask
SetEditedTask(id, task) ==
    /\ items' = [items EXCEPT ![id] = task]
    /\ UNCHANGED <<state, slot>>

\* selecting or unselecting a tag badge in a form
toggleTag(tags, id) ==
    IF id \in Range(tags) THEN filter(tags, Range(tags) \ {id}) ELSE Append(tags, id)

---------------------------------------------------------------------------
\* TaskItem: the checkbox
ToggleTask(id) ==
    /\ Record("TOGGLE_TASK", <<id>>)
    /\ id \in DOMAIN items
    /\ Dispatch([type |-> "TOGGLE_TASK", payload |-> [id |-> id, date |-> Date(now)]])
    /\ UNCHANGED <<formVars, tagVars, filterVars, bootVars, now>>

\* TaskItem: the trash button
DeleteTask(id) ==
    /\ Record("DELETE_TASK", <<id>>)
    /\ id \in DOMAIN items
    /\ Dispatch([type |-> "DELETE_TASK", payload |-> id])
    /\ UNCHANGED <<formVars, tagVars, filterVars, bootVars, now>>

\* TaskItem: the inputs of the edit dialog
EditName(id, name) ==
    /\ Record("editName", <<id>>)
    /\ id \in DOMAIN items
    /\ name # items[id].name
    /\ SetEditedTask(id, [items[id] EXCEPT !.name = name])
    /\ UNCHANGED <<formVars, tagVars, filterVars, bootVars, now>>

EditDescription(id, text) ==
    /\ Record("editDescription", <<id>>)
    /\ id \in DOMAIN items
    /\ text # items[id].description
    /\ SetEditedTask(id, [items[id] EXCEPT !.description = text])
    /\ UNCHANGED <<formVars, tagVars, filterVars, bootVars, now>>

EditDueDate(id, date) ==
    /\ Record("editDueDate", <<id>>)
    /\ id \in DOMAIN items
    /\ date # items[id].dueDate
    /\ SetEditedTask(id, [items[id] EXCEPT !.dueDate = date])
    /\ UNCHANGED <<formVars, tagVars, filterVars, bootVars, now>>

EditPriority(id, value) ==
    /\ Record("editPriority", <<id>>)
    /\ id \in DOMAIN items
    /\ value # ToString(items[id].priority)
    /\ SetEditedTask(id, [items[id] EXCEPT !.priority = parseInt(value)])
    /\ UNCHANGED <<formVars, tagVars, filterVars, bootVars, now>>

EditTags(id, tagId) ==
    /\ Record("editTags", <<id, tagId>>)
    /\ id \in DOMAIN items
    /\ tagId \in TagIds(state)
    /\ SetEditedTask(id, [items[id] EXCEPT !.tags = toggleTag(@, tagId)])
    /\ UNCHANGED <<formVars, tagVars, filterVars, bootVars, now>>

\* TaskItem: Save Changes
handleSaveEdit(id) ==
    /\ Record("EDIT_TASK", <<id>>)
    /\ id \in DOMAIN items
    /\ Dispatch([type |-> "EDIT_TASK", payload |-> items[id]])
    /\ UNCHANGED <<formVars, tagVars, filterVars, bootVars, now>>

---------------------------------------------------------------------------
\* AddTaskForm: the dialog's onOpenChange
setIsOpen(open) ==
    /\ Record("setIsOpen", <<open>>)
    /\ open # isOpen
    /\ isOpen' = open
    /\ UNCHANGED <<state, items, slot, newTask, tagVars, filterVars, bootVars, now>>

\* AddTaskForm: the inputs of the dialog
SetNewTask(task, op) ==
    /\ Record(op, <<>>)
    /\ isOpen
    /\ task # newTask
    /\ newTask' = task
    /\ UNCHANGED <<state, items, slot, isOpen, tagVars, filterVars, bootVars, now>>

AddName(name) == SetNewTask([newTask EXCEPT !.name = name], "addName")
AddDescription(text) == SetNewTask([newTask EXCEPT !.description = text], "addDescription")
AddDueDate(date) == SetNewTask([newTask EXCEPT !.dueDate = date], "addDueDate")
AddPriority(value) == SetNewTask([newTask EXCEPT !.priority = parseInt(value)], "addPriority")
AddTags(tagId) ==
    /\ tagId \in TagIds(state)
    /\ SetNewTask([newTask EXCEPT !.tags = toggleTag(@, tagId)], "addTags")

\* the task handleAddTask builds from the form
NewTaskFrom(form, t, count) ==
    [id |-> ToString(t), name |-> form.name, description |-> form.description,
     dueDate |-> form.dueDate, completed |-> form.completed,
     priority |-> form.priority, tags |-> form.tags, createdAt |-> Date(t),
     completedAt |-> Null, position |-> count]

\* A faulty variant of nameAccepted: the name is not trimmed.
nameAcceptedUntrimmed(name) == name # ""

\* whether handleAddTask / handleAddTag / handleUpdateTag accepts a name
nameAccepted(name) == trim(name) # ""

\* AddTaskForm: Add Task
handleAddTask ==
    /\ Record("handleAddTask", <<newTask.name>>)
    /\ isOpen
    /\ IF nameAccepted(newTask.name)
       THEN /\ Dispatch([type |-> "ADD_TASK",
                         payload |-> NewTaskFrom(newTask, now, Len(state.tasks))])
            /\ newTask' = EmptyNewTask(now)
            /\ isOpen' = FALSE
       ELSE UNCHANGED <<state, items, slot, newTask, isOpen>>
    /\ UNCHANGED <<tagVars, filterVars, bootVars, now>>

---------------------------------------------------------------------------
\* TagManager: the new tag inputs
SetNewTag(tag, op) ==
    /\ Record(op, <<>>)
    /\ tag # newTag
    /\ newTag' = tag
    /\ UNCHANGED <<state, items, slot, formVars, editingTag, filterVars, bootVars, now>>

TagName(name) == SetNewTag([newTag EXCEPT !.name = name], "tagName")
TagColor(color) == SetNewTag([newTag EXCEPT !.color = color], "tagColor")

\* TagManager: Add
handleAddTag ==
    /\ Record("handleAddTag", <<newTag.name>>)
    /\ IF nameAccepted(newTag.name)
       THEN /\ Dispatch([type |-> "ADD_TAG",
                         payload |-> [id |-> ToString(now), name |-> newTag.name,
                                      color |-> newTag.color]])
            /\ newTag' = EmptyNewTag
       ELSE UNCHANGED <<state, items, slot, newTag>>
    /\ UNCHANGED <<formVars, editingTag, filterVars, bootVars, now>>

\* TagManager: Edit, the inputs of the edited row, Cancel
SetEditingTag(value, op) ==
    /\ Record(op, <<>>)
    /\ value # editingTag
    /\ editingTag' = value
    /\ UNCHANGED <<state, items, slot, formVars, newTag, filterVars, bootVars, now>>

StartEditTag(tag) ==
    /\ tag \in Range(state.tags)
    /\ editingTag # <<>> => editingTag[1].id # tag.id
    /\ SetEditingTag(<<tag>>, "startEditTag")
EditTagName(name) ==
    /\ editingTag # <<>>
    /\ editingTag[1].id \in TagIds(state)
    /\ SetEditingTag(<<[editingTag[1] EXCEPT !.name = name]>>, "editTagName")
EditTagColor(color) ==
    /\ editingTag # <<>>
    /\ editingTag[1].id \in TagIds(state)
    /\ SetEditingTag(<<[editingTag[1] EXCEPT !.color = color]>>, "editTagColor")
CancelEditTag ==
    /\ editingTag # <<>>
    /\ editingTag[1].id \in TagIds(state)
    /\ SetEditingTag(<<>>, "cancelEditTag")

\* TagManager: Save of the edited row
handleUpdateTag ==
    /\ editingTag # <<>>
    /\ Record("handleUpdateTag", <<editingTag[1].id>>)
    /\ editingTag[1].id \in TagIds(state)
    /\ IF nameAccepted(editingTag[1].name)
       THEN /\ Dispatch([type |-> "EDIT_TAG", payload |-> editingTag[1]])
            /\ editingTag' = <<>>
       ELSE UNCHANGED <<state, items, slot, editingTag>>
    /\ UNCHANGED <<formVars, newTag, filterVars, bootVars, now>>

\* TagManager: Delete of a row that is not being edited
handleDeleteTag(id) ==
    /\ Record("DELETE_TAG", <<id>>)
    /\ id \in TagIds(state)
    /\ editingTag # <<>> => editingTag[1].id # id
    /\ Dispatch([type |-> "DELETE_TAG", payload |-> id])
    /\ editingTag' = IF editingTag # <<>> /\ editingTag[1].id = id THEN <<>> ELSE editingTag
    /\ UNCHANGED <<formVars, newTag, filterVars, bootVars, now>>

---------------------------------------------------------------------------
\* The filter, sort and search controls.  A control reports a change only.
SetFilters(status, pf, tf, key, q, op) ==
    /\ Record(op, <<>>)
    /\ <<status, pf, tf, key, q>> # filterVars
    /\ statusFilter' = status
    /\ priorityFilter' = pf
    /\ tagFilter' = tf
    /\ sortBy' = key
    /\ searchQuery' = q
    /\ items' = Mount(items, filteredAndSortedTasks(state.tasks, q, status, pf, tf, key))
    /\ UNCHANGED <<state, slot, formVars, tagVars, bootVars, now>>

setStatusFilter(value) ==
    SetFilters(value, priorityFilter, tagFilter, sortBy, searchQuery, "setStatusFilter")

\* the value the priority select shows: priorityFilter?.toString() || "0"
PrioritySelectValue == IF priorityFilter = <<>> THEN "0" ELSE ToString(priorityFilter[1])

\* onValueChange of the priority select: value ? Number.parseInt(value) : null
priorityFilterOf(value) == IF value # "" THEN <<parseInt(value)>> ELSE <<>>

setPriorityFilter(value) ==
    /\ Record("setPriorityFilter", <<value>>)
    /\ value # PrioritySelectValue
    /\ priorityFilter' = priorityFilterOf(value)
    /\ items' = Mount(items, filteredAndSortedTasks(state.tasks, searchQuery,
                         statusFilter, priorityFilterOf(value), tagFilter, sortBy))
    /\ UNCHANGED <<state, slot, formVars, tagVars, bootVars, now,
                   statusFilter, tagFilter, sortBy, searchQuery>>

\* onValueChange of the tag select: value === "0" ? null : value
tagFilterOf(value) == IF value = "0" THEN <<>> ELSE <<value>>

setTagFilter(value) ==
    /\ value \in {"0"} \cup TagIds(state)
    /\ SetFilters(statusFilter, priorityFilter, tagFilterOf(value), sortBy, searchQuery,
                  "setTagFilter")

setSortBy(value) ==
    SetFilters(statusFilter, priorityFilter, tagFilter, value, searchQuery, "setSortBy")

handleSearch(newQuery) ==
    SetFilters(statusFilter, priorityFilter, tagFilter, sortBy, newQuery, "handleSearch")

---------------------------------------------------------------------------
\* A faulty variant of reorder: the two items change places.
reorderSwaps(shown, source, destination) ==
    [i \in 1..Len(shown) |->
        [(IF i = source + 1 THEN shown[destination + 1]
          ELSE IF i = destination + 1 THEN shown[source + 1]
          ELSE shown[i]) EXCEPT !.position = i - 1]]

\* the sequence handleDragEnd dispatches for a move from source to destination
reorder(shown, source, destination) ==
    LET moved == insertAt(removeAt(shown, source), destination, shown[source + 1])
    IN [i \in 1..Len(moved) |-> [moved[i] EXCEPT !.position = i - 1]]

\* A drop: result.destination is absent (<<>>) or <<index>>
handleDragEnd(source, destination) ==
    /\ Record("handleDragEnd", <<source, destination>>)
    /\ source \in 0..(Len(Displayed(state)) - 1)
    /\ destination # <<>> => destination[1] \in 0..(Len(Displayed(state)) - 1)
    /\ IF destination = <<>>
       THEN UNCHANGED <<state, items, slot>>
       ELSE Dispatch([type |-> "REORDER_TASKS",
                      payload |-> reorder(Displayed(state), source, destination[1])])
    /\ UNCHANGED <<formVars, tagVars, filterVars, bootVars, now>>

---------------------------------------------------------------------------
\* The clock advances by a millisecond.
ClockTick ==
    /\ Record("tick", <<>>)
    /\ now' = now + 1
    /\ UNCHANGED <<state, items, slot, formVars, tagVars, filterVars, bootVars>>

\* The page is closed and opened again: the component is constructed anew,
\* localStorage is kept.
Reload ==
    /\ pc = "idle"
    /\ budget > 0
    /\ state' = SeedState(now)
    /\ items' = Mount(<<>>, filteredAndSortedTasks(SeedTasks(now), "", "all", <<>>, <<>>,
                                                   "dueDate"))
    /\ newTask' = EmptyNewTask(now)
    /\ isOpen' = FALSE
    /\ newTag' = EmptyNewTag
    /\ editingTag' = <<>>
    /\ statusFilter' = "all"
    /\ priorityFilter' = <<>>
    /\ tagFilter' = <<>>
    /\ sortBy' = "dueDate"
    /\ searchQuery' = ""
    /\ pc' = "mount"
    /\ pending' = <<>>
    /\ savedTasks' = <<>>
    /\ closed' = <<state>>
    /\ budget' = budget - 1
    /\ prev' = state
    /\ last' = [op |-> "reload", arg |-> <<>>]
    /\ UNCHANGED <<slot, now>>

---------------------------------------------------------------------------
\* The effects of the first render, in the order the component declares them.

\* the load effect: it reads the slot and queues REPLACE_ALL
LoadEffect ==
    /\ pc = "mount"
    /\ savedTasks' = slot
    /\ pending' = IF truthy(slot) THEN loadAction(slot[1]) ELSE <<>>
    /\ pc' = "mountSave"
    /\ UNCHANGED <<state, items, slot, formVars, tagVars, filterVars, now, closed,
                   prev, last, budget>>

\* the save effect of the first render, which still sees the seed state
MountSaveEffect ==
    /\ pc = "mountSave"
    /\ SaveEffect(state)
    /\ pc' = IF pending # <<>> THEN "render" ELSE "idle"
    /\ UNCHANGED <<state, items, formVars, tagVars, filterVars, now, closed, pending,
                   savedTasks, prev, last, budget>>

\* the render of the queued REPLACE_ALL, and its save effect; a render that
\* throws takes the component down, and its effects do not run
ApplyLoaded ==
    /\ pc = "render"
    /\ IF renderThrows(tasksReducer(state, pending[1]))
       THEN /\ state' = tasksReducer(state, pending[1])
            /\ pc' = "crashed"
            /\ UNCHANGED <<items, slot>>
       ELSE /\ Dispatch(pending[1])
            /\ pc' = "idle"
    /\ prev' = state
    /\ last' = [op |-> "REPLACE_ALL", arg |-> <<>>]
    /\ pending' = <<>>
    /\ UNCHANGED <<formVars, tagVars, filterVars, now, savedTasks, closed, budget>>

---------------------------------------------------------------------------
Init ==
    /\ now = StartClock
    /\ state = SeedState(StartClock)
    /\ items = Mount(<<>>, filteredAndSortedTasks(SeedTasks(StartClock), "", "all", <<>>,
                                                  <<>>, "dueDate"))
    /\ newTask = EmptyNewTask(StartClock)
    /\ isOpen = FALSE
    /\ newTag = EmptyNewTag
    /\ editingTag = <<>>
    /\ statusFilter = "all"
    /\ priorityFilter = <<>>
    /\ tagFilter = <<>>
    /\ sortBy = "dueDate"
    /\ searchQuery = ""
    /\ slot = <<>>
    /\ pc = "mount"
    /\ pending = <<>>
    /\ savedTasks = <<>>
    /\ closed = <<>>
    /\ prev = SeedState(StartClock)
    /\ last = [op |-> "init", arg |-> <<>>]
    /\ budget = MaxSteps

TaskItemEvent ==
    \/ \E id \in DOMAIN items : ToggleTask(id)
    \/ \E id \in DOMAIN items : DeleteTask(id)
    \/ \E id \in DOMAIN items : \E name \in EditNameInputs : EditName(id, name)
    \/ \E id \in DOMAIN items : \E text \in DescriptionInputs : EditDescription(id, text)
    \/ \E id \in DOMAIN items : \E date \in DueInputs(now) : EditDueDate(id, date)
    \/ \E id \in DOMAIN items : \E value \in PriorityInputs : EditPriority(id, value)
    \/ \E id \in DOMAIN items : \E tagId \in TagIds(state) : EditTags(id, tagId)
    \/ \E id \in DOMAIN items : handleSaveEdit(id)

AddTaskFormEvent ==
    \/ \E open \in BOOLEAN : setIsOpen(open)
    \/ \E name \in NameInputs : AddName(name)
    \/ \E text \in DescriptionInputs : AddDescription(text)
    \/ \E date \in DueInputs(now) : AddDueDate(date)
    \/ \E value \in PriorityInputs : AddPriority(value)
    \/ \E tagId \in TagIds(state) : AddTags(tagId)
    \/ handleAddTask

TagManagerEvent ==
    \/ \E name \in TagNameInputs : TagName(name)
    \/ \E color \in ColorInputs : TagColor(color)
    \/ handleAddTag
    \/ \E tag \in Range(state.tags) : StartEditTag(tag)
    \/ \E name \in TagNameInputs : EditTagName(name)
    \/ \E color \in ColorInputs : EditTagColor(color)
    \/ CancelEditTag
    \/ handleUpdateTag
    \/ \E id \in TagIds(state) : handleDeleteTag(id)

FilterEvent ==
    \/ \E value \in StatusOptions : setStatusFilter(value)
    \/ \E value \in PriorityFilterOptions : setPriorityFilter(value)
    \/ \E value \in {"0"} \cup TagIds(state) : setTagFilter(value)
    \/ \E value \in SortOptions : setSortBy(value)
    \/ \E q \in SearchInputs : handleSearch(q)

DragEvent ==
    \E source \in 0..(Len(state.tasks) - 1) :
        \E destination \in {<<>>} \cup {<<d>> : d \in 0..(Len(state.tasks) - 1)} :
            handleDragEnd(source, destination)

UserEvent ==
    \/ TaskItemEvent
    \/ AddTaskFormEvent
    \/ TagManagerEvent
    \/ FilterEvent
    \/ DragEvent
    \/ ClockTick
    \/ Reload

Startup == LoadEffect \/ MountSaveEffect \/ ApplyLoaded

Next == Startup \/ UserEvent

Spec == Init /\ [][Next]_vars

(***************************************************************************)
(* SpecCreate: the component with only the creation forms in use (the add  *)
(* task dialog, the new tag row) and the clock, explored more deeply.      *)
(***************************************************************************)
InitCreate ==
    /\ now = StartClock
    /\ state = SeedState(StartClock)
    /\ items = Mount(<<>>, filteredAndSortedTasks(SeedTasks(StartClock), "", "all", <<>>,
                                                  <<>>, "dueDate"))
    /\ newTask = EmptyNewTask(StartClock)
    /\ isOpen = FALSE
    /\ newTag = EmptyNewTag
    /\ editingTag = <<>>
    /\ statusFilter = "all"
    /\ priorityFilter = <<>>
    /\ tagFilter = <<>>
    /\ sortBy = "dueDate"
    /\ searchQuery = ""
    /\ slot = <<>>
    /\ pc = "mount"
    /\ pending = <<>>
    /\ savedTasks = <<>>
    /\ closed = <<>>
    /\ prev = SeedState(StartClock)
    /\ last = [op |-> "init", arg |-> <<>>]
    /\ budget = MaxCreateSteps

NextCreate ==
    \/ LoadEffect
    \/ MountSaveEffect
    \/ AddTaskFormEvent
    \/ \E name \in TagNameInputs : TagName(name)
    \/ handleAddTag
    \/ ClockTick

SpecCreate == InitCreate /\ [][NextCreate]_vars

(***************************************************************************)
(* SpecReducer: tasksReducer as a pure function, applied to intents from   *)
(* any state of a bounded family, not only the states the forms produce.   *)
(***************************************************************************)
AnyTask(id, done) ==
    [id |-> id, name |-> "Task " \o id, description |-> "",
     dueDate |-> Date(StartClock), completed |-> done, priority |-> 3,
     tags |-> IF done THEN <<"3", "2", "2">> ELSE <<"2", "3">>,
     createdAt |-> Date(StartClock),
     completedAt |-> IF done THEN Date(StartClock) ELSE Null, position |-> 0]

AnyTasks ==
    UNION {[1..n -> {AnyTask(id, done) : id \in {"1", "2"}, done \in BOOLEAN}] :
             n \in 0..MaxLen}

\* the seed tags, and what is left of them when "1", and "1" and "2", have
\* been deleted; a task may still name a deleted tag
AnyTags == {SeedTags, SubSeq(SeedTags, 2, 3), SubSeq(SeedTags, 3, 3)}

AnyIntents ==
    {[type |-> "ADD_TASK", payload |-> AnyTask("7", FALSE)],
     [type |-> "REPLACE_ALL", payload |-> SeedState(StartClock)],
     [type |-> "REORDER_TASKS", payload |-> <<AnyTask("2", TRUE)>>],
     [type |-> "ADD_TAG", payload |-> [id |-> "7", name |-> "Home", color |-> "#ef4444"]],
     [type |-> "UNKNOWN", payload |-> <<>>]}
    \cup {[type |-> "TOGGLE_TASK", payload |-> [id |-> id, date |-> Date(StartClock + 1)]] :
             id \in {"1", "2", "9"}}
    \cup {[type |-> "DELETE_TASK", payload |-> id] : id \in {"1", "9"}}
    \cup {[type |-> "EDIT_TASK", payload |-> [AnyTask(id, TRUE) EXCEPT !.name = "Plan"]] :
             id \in {"1", "9"}}
    \cup {[type |-> "EDIT_TAG", payload |-> [id |-> id, name |-> "Home", color |-> "#ef4444"]] :
             id \in {"2", "9"}}
    \cup {[type |-> "DELETE_TAG", payload |-> id] : id \in {"2", "3", "9"}}

InitReducer ==
    /\ now = StartClock
    /\ state \in [tasks : AnyTasks, tags : AnyTags]
    /\ items = <<>>
    /\ newTask = EmptyNewTask(StartClock)
    /\ isOpen = FALSE
    /\ newTag = EmptyNewTag
    /\ editingTag = <<>>
    /\ statusFilter = "all"
    /\ priorityFilter = <<>>
    /\ tagFilter = <<>>
    /\ sortBy = "dueDate"
    /\ searchQuery = ""
    /\ slot = <<>>
    /\ pc = "reducer"
    /\ pending = <<>>
    /\ savedTasks = <<>>
    /\ closed = <<>>
    /\ prev = state
    /\ last = [op |-> "init", arg |-> <<>>]
    /\ budget = MaxIntents

\* state := tasksReducer(state, intent)
Transition(intent) ==
    /\ pc = "reducer"
    /\ budget > 0
    /\ budget' = budget - 1
    /\ state' = tasksReducer(state, intent)
    /\ prev' = state
    /\ last' = [op |-> intent.type, arg |-> <<intent.payload>>]
    /\ UNCHANGED <<items, slot, formVars, tagVars, filterVars, bootVars, now>>

NextReducer == \E intent \in AnyIntents : Transition(intent)

SpecReducer == InitReducer /\ [][NextReducer]_vars

(***************************************************************************)
(* SpecLoad: the component started on a storage slot with any content: no  *)
(* value, a text that is not JSON, JSON that lacks a collection, or a      *)
(* state saved earlier.                                                    *)
(***************************************************************************)
SavedState ==
    [tasks |-> SubSeq(SeedTasks(StartClock - DayMs), 2, 4), tags |-> SeedTags]

SlotInputs ==
    {<<>>,
     <<[text |-> ""]>>,
     <<[text |-> "not json"]>>,
     <<[tags |-> SeedTags]>>,
     <<[tasks |-> stringify(SavedState).tasks]>>,
     <<stringify(SavedState)>>}

InitLoad ==
    /\ now = StartClock
    /\ state = SeedState(StartClock)
    /\ items = Mount(<<>>, filteredAndSortedTasks(SeedTasks(StartClock), "", "all", <<>>,
                                                  <<>>, "dueDate"))
    /\ newTask = EmptyNewTask(StartClock)
    /\ isOpen = FALSE
    /\ newTag = EmptyNewTag
    /\ editingTag = <<>>
    /\ statusFilter = "all"
    /\ priorityFilter = <<>>
    /\ tagFilter = <<>>
    /\ sortBy = "dueDate"
    /\ searchQuery = ""
    /\ slot \in SlotInputs
    /\ pc = "mount"
    /\ pending = <<>>
    /\ savedTasks = <<>>
    /\ closed = <<>>
    /\ prev = SeedState(StartClock)
    /\ last = [op |-> "init", arg |-> <<>>]
    /\ budget = MaxLoadSteps

NextLoad ==
    \/ LoadEffect
    \/ MountSaveEffect
    \/ ApplyLoaded
    \/ \E id \in DOMAIN items : ToggleTask(id)
    \/ \E id \in DOMAIN items : DeleteTask(id)
    \/ Reload

SpecLoad == InitLoad /\ [][NextLoad]_vars

(***************************************************************************)
(* SpecView: the displayed sequence and drag and drop, from every          *)
(* combination of the filter, sort and search controls over a family of    *)
(* task collections: none, the seed tasks, and tasks added through the     *)
(* form that tie on name, due date and priority.                           *)
(***************************************************************************)
FormTask(t, name, description, due, priority, tags, count) ==
    NewTaskFrom([name |-> name, description |-> description, dueDate |-> Date(due),
                 completed |-> FALSE, priority |-> priority, tags |-> tags], t, count)

AddedTasks ==
    <<FormTask(StartClock, "Zed", "", StartClock, 3, <<>>, 0),
      ToggleOne(FormTask(StartClock + 1, "apple pie", "Read", StartClock, 5, <<"1">>, 1),
                Date(StartClock + 3)),
      FormTask(StartClock + 2, "Zed", "notes", StartClock + DayMs, 5, <<"1", "2">>, 2)>>

ViewTasks ==
    {<<>>, SeedTasks(StartClock), AddedTasks,
     <<AddedTasks[3], AddedTasks[2], AddedTasks[1]>>}

ViewPriorityFilters == {<<>>, <<0>>, <<5>>}
ViewTagFilters == {<<>>, <<"1">>}
ViewSearchInputs == {"", " ", "READ"}

InitView ==
    /\ now = StartClock + 3
    /\ state \in [tasks : ViewTasks, tags : {SeedTags}]
    /\ statusFilter \in StatusOptions
    /\ priorityFilter \in ViewPriorityFilters
    /\ tagFilter \in ViewTagFilters
    /\ sortBy \in SortOptions
    /\ searchQuery \in ViewSearchInputs
    /\ items = Mount(<<>>, filteredAndSortedTasks(state.tasks, searchQuery, statusFilter,
                                                  priorityFilter, tagFilter, sortBy))
    /\ newTask = EmptyNewTask(StartClock + 3)
    /\ isOpen = FALSE
    /\ newTag = EmptyNewTag
    /\ editingTag = <<>>
    /\ slot = <<stringify(state)>>
    /\ pc = "idle"
    /\ pending = <<>>
    /\ savedTasks = <<>>
    /\ closed = <<>>
    /\ prev = state
    /\ last = [op |-> "init", arg |-> <<>>]
    /\ budget = MaxViewSteps

NextView ==
    \/ DragEvent
    \/ \E value \in SortOptions : setSortBy(value)
    \/ \E q \in SearchInputs : handleSearch(q)

SpecView == InitView /\ [][NextView]_vars

(***************************************************************************)
(* Properties                                                              *)
(***************************************************************************)
Without(seq, x) == SelectSeq(seq, LAMBDA e : e # x)
TasksWithId(st, id) == {i \in 1..Len(st.tasks) : st.tasks[i].id = id}
Positions(st) == {st.tasks[i].position : i \in 1..Len(st.tasks)}
Dropped == last.op = "handleDragEnd" /\ last.arg[2] # <<>>

\* C1: after a drag and drop reorder, every task the filters hid from the
\* displayed sequence is still in the task collection, with all its fields.
C1_HiddenTasksKept ==
    Dropped =>
        \A i \in 1..Len(prev.tasks) :
            prev.tasks[i] \notin Range(Displayed(prev)) =>
                prev.tasks[i] \in Range(state.tasks)

\* C2: after DeleteTag(id) no tag has that id and no task's tags contain it;
\* every other tag, and every other tag id of every task, is kept in place.
C2_DeleteTagStrips ==
    last.op = "DELETE_TAG" =>
        LET id == last.arg[1]
        IN /\ id \notin TagIds(state)
           /\ \A i \in 1..Len(state.tasks) : id \notin Range(state.tasks[i].tags)
           /\ state.tags = SelectSeq(prev.tags, LAMBDA g : g.id # id)
           /\ Len(state.tasks) = Len(prev.tasks)
           /\ \A i \in 1..Len(prev.tasks) :
                 state.tasks[i] = [prev.tasks[i] EXCEPT !.tags = Without(@, id)]

\* DeleteTag("2") has turned a task's tags ["2","3"] into ["3"].
C2_Witness ==
    /\ last.op = "DELETE_TAG"
    /\ last.arg[1] = "2"
    /\ "2" \in TagIds(prev)
    /\ \E i \in 1..Len(prev.tasks) :
          /\ prev.tasks[i].id = "1"
          /\ prev.tasks[i].tags = <<"2", "3">>
          /\ state.tasks[i].tags = <<"3">>

\* C3: every task is completed exactly when its completedAt is present.
C3_CompletedIffCompletedAt ==
    \A i \in 1..Len(state.tasks) :
        state.tasks[i].completed <=> state.tasks[i].completedAt # Null

\* A saved state in which task "1" had been completed has been loaded.
C3_Witness ==
    /\ last.op = "REPLACE_ALL"
    /\ \E i \in 1..Len(state.tasks) :
          /\ state.tasks[i].id = "1"
          /\ state.tasks[i].completed
          /\ state.tasks[i].completedAt = Date(StartClock)

\* C4: every tag id in a task's tags is the id of a tag of the collection.
C4_TagsExist ==
    \A i \in 1..Len(state.tasks) : Range(state.tasks[i].tags) \subseteq TagIds(state)

\* C5: no two tasks share an id and no two tags share an id.
C5_UniqueIds ==
    /\ Cardinality(TaskIds(state)) = Len(state.tasks)
    /\ Cardinality(TagIds(state)) = Len(state.tags)

\* C6: the positions of the N tasks are exactly 0..N-1, each used once.
C6_DensePositions ==
    /\ Positions(state) = 0..(Len(state.tasks) - 1)
    /\ Cardinality(Positions(state)) = Len(state.tasks)

\* C7: no task is created or edited into a name that is empty after
\* trimming, so every task has a non-empty name.
C7_NamesNonEmpty ==
    \A i \in 1..Len(state.tasks) : trim(state.tasks[i].name) # ""

\* C8: submitting the add form with an empty or whitespace name changes
\* neither the tasks, the tags, the form contents nor the open dialog.
C8_BlankSubmitChangesNothing ==
    [][(last'.op = "handleAddTask" /\ trim(last'.arg[1]) = "")
          => (isOpen' /\ UNCHANGED <<state, newTask, isOpen, slot>>)]_vars

\* The form has been submitted with the name " ".
C8_Witness ==
    /\ last.op = "handleAddTask"
    /\ last.arg[1] = " "
    /\ newTask.name = " "
    /\ isOpen

\* C9: ToggleTask(id, t1) on a task that is not completed sets completed
\* and completedAt = t1, ToggleTask on a completed task clears both, and a
\* second ToggleTask(id, t2) gives back the state before the first; nothing
\* else changes.
C9_ToggleTwiceRestores ==
    last.op = "TOGGLE_TASK" =>
        LET id == last.arg[1].id
            t1 == last.arg[1].date
        IN /\ state.tags = prev.tags
           /\ Len(state.tasks) = Len(prev.tasks)
           /\ \A i \in 1..Len(prev.tasks) :
                 state.tasks[i] =
                    IF prev.tasks[i].id # id THEN prev.tasks[i]
                    ELSE IF prev.tasks[i].completed
                    THEN [prev.tasks[i] EXCEPT !.completed = FALSE, !.completedAt = Null]
                    ELSE [prev.tasks[i] EXCEPT !.completed = TRUE, !.completedAt = t1]
           /\ (\A i \in TasksWithId(prev, id) :
                  ~prev.tasks[i].completed /\ prev.tasks[i].completedAt = Null)
              => \A t2 \in {StartClock + 1, StartClock + 2} :
                    tasksReducer(state, [type |-> "TOGGLE_TASK",
                                         payload |-> [id |-> id, date |-> Date(t2)]]) = prev

\* Task "1" has been toggled twice in succession: the first toggle set
\* completedAt, the second one cleared it.
C9_Witness ==
    /\ last.op = "TOGGLE_TASK"
    /\ last.arg[1].id = "1"
    /\ budget = MaxIntents - 2
    /\ \E i \in 1..Len(prev.tasks) :
          /\ prev.tasks[i].id = "1"
          /\ prev.tasks[i].completed
          /\ prev.tasks[i].completedAt = Date(StartClock + 1)
          /\ ~state.tasks[i].completed
          /\ state.tasks[i].completedAt = Null

IsTimestamp(v) == IsDate(v) /\ getTime(v) \in Int

\* C10: what the program saves, it loads back unchanged: the state after the
\* load equals the state the previous session ended with, every dueDate and
\* createdAt a Date, every completedAt a Date or null.
C10_RoundTrip ==
    /\ tasksWithDates(stringify(state)) = state
    /\ last.op = "REPLACE_ALL" =>
          /\ closed # <<>>
          /\ state = closed[1]
          /\ \A i \in 1..Len(state.tasks) :
                /\ IsTimestamp(state.tasks[i].dueDate)
                /\ IsTimestamp(state.tasks[i].createdAt)
                /\ \/ state.tasks[i].completedAt = Null
                   \/ IsTimestamp(state.tasks[i].completedAt)

\* A state other than the seed, with a completed and an uncompleted task,
\* has been loaded.
C10_Witness ==
    /\ last.op = "REPLACE_ALL"
    /\ state # SeedState(now)
    /\ \E i \in 1..Len(state.tasks) : state.tasks[i].completedAt # Null
    /\ \E i \in 1..Len(state.tasks) : state.tasks[i].completedAt = Null

\* a slot value that cannot be deserialized into a state: a text that is
\* not JSON, JSON without tasks, JSON without tags
Undeserializable(saved) ==
    /\ saved # <<>>
    /\ \/ "text" \in DOMAIN saved[1]
       \/ "tasks" \notin DOMAIN saved[1]
       \/ "tags" \notin DOMAIN saved[1]

\* C11: when the slot read at startup cannot be deserialized into a state,
\* the load fails nothing, dispatches no ReplaceAll and the state stays the
\* built-in seed state, tasks and tags.
C11_BadSlotKeepsSeed ==
    (Undeserializable(savedTasks) /\ last.op \in {"init", "REPLACE_ALL"}) =>
        /\ pc # "crashed"
        /\ pending = <<>>
        /\ last.op = "init"
        /\ DOMAIN state = {"tasks", "tags"}
        /\ state = SeedState(now)

\* C12: whenever the program is idle, the slot holds the serialization of
\* the whole current state: every state change, the ReplaceAll of the load
\* included, has been saved before the next intent.
C12_SlotIsState == pc = "idle" => slot = <<stringify(state)>>

\* A saved state other than the seed has been loaded, and the slot holds it.
C12_Witness ==
    /\ pc = "idle"
    /\ last.op = "REPLACE_ALL"
    /\ state # SeedState(now)
    /\ state.tags # SeedTags
    /\ slot = <<stringify(state)>>

Day(t) == t \div DayMs
Completed(tasks) == {i \in 1..Len(tasks) : tasks[i].completed}
DueBefore(tasks, t) ==
    {i \in 1..Len(tasks) : ~tasks[i].completed /\ Day(getTime(tasks[i].dueDate)) < Day(t)}
DueOn(tasks, t) ==
    {i \in 1..Len(tasks) : ~tasks[i].completed /\ Day(getTime(tasks[i].dueDate)) = Day(t)}
DueAfter(tasks, t) ==
    {i \in 1..Len(tasks) : ~tasks[i].completed /\ Day(getTime(tasks[i].dueDate)) > Day(t)}

C18_SaveKeepsCompletion ==
    last.op = "EDIT_TASK" =>
        /\ Len(state.tasks) = Len(prev.tasks)
        /\ \A i \in 1..Len(prev.tasks) :
              prev.tasks[i].id = last.arg[1] =>
                 /\ state.tasks[i].completed = prev.tasks[i].completed
                 /\ state.tasks[i].completedAt = prev.tasks[i].completedAt
                 /\ state.tasks[i].position = prev.tasks[i].position

\* C19: from the start of a session on a saved state S until the first user
\* event, the slot holds the serialization of S and nothing else.
C19_SlotKeptDuringStartup ==
    (closed # <<>> /\ last.op \in {"reload", "REPLACE_ALL"}) =>
        slot = <<stringify(closed[1])>>

\* C20: after a drop at index d the displayed sequence is the reordered
\* sequence that was dispatched, with the dragged task at index d.
C20_DroppedTaskShownAtDestination ==
    Dropped =>
        LET shown == Displayed(prev)
            s == last.arg[1]
            d == last.arg[2][1]
        IN /\ Displayed(state) = reorder(shown, s, d)
           /\ Displayed(state)[d + 1].id = shown[s + 1].id

Count(seq, x) == Cardinality({i \in 1..Len(seq) : seq[i] = x})

\* text contains query, without regard to case
ContainsNoCase(text, query) ==
    \E i \in 0..(Len(text) - Len(query)) :
        \A k \in 1..Len(query) :
            LowerChar(CharAt(text, i + k)) = LowerChar(CharAt(query, k))

StatusStage(t) ==
    \/ statusFilter = "all"
    \/ statusFilter = "completed" /\ t.completed
    \/ statusFilter = "active" /\ ~t.completed
PriorityStage(t) == priorityFilter = <<>> \/ t.priority = priorityFilter[1]
TagStage(t) == tagFilter = <<>> \/ \E i \in 1..Len(t.tags) : t.tags[i] = tagFilter[1]
SearchStage(t) ==
    \/ ContainsNoCase(t.name, searchQuery)
    \/ ContainsNoCase(t.description, searchQuery)

\* the displayed sequence holds each task that passes as often as the
\* collection holds it, and no task that does not pass
DisplayedAre(passes) ==
    \A t \in Range(state.tasks) \cup Range(Displayed(state)) :
        Count(Displayed(state), t) = IF t \in passes THEN Count(state.tasks, t) ELSE 0

\* C13 as stated: the displayed sequence holds exactly the tasks that pass
\* the status, priority and tag stages and, when the query is not empty,
\* contain the query in name or description without regard to case.
C13_DisplayedAreTheMatches ==
    DisplayedAre({t \in Range(state.tasks) :
        /\ searchQuery # "" => SearchStage(t)
        /\ StatusStage(t) /\ PriorityStage(t) /\ TagStage(t)})

\* C13, amended: the search stage applies when the query is not empty after
\* trimming; a query of white space passes every task.
C13_DisplayedAreTheMatchesTrimmed ==
    DisplayedAre({t \in Range(state.tasks) :
        /\ trim(searchQuery) # "" => SearchStage(t)
        /\ StatusStage(t) /\ PriorityStage(t) /\ TagStage(t)})

\* The query has been typed while the other three stages were active: the
\* four stages keep one task of three.
C13_Witness ==
    /\ last.op = "handleSearch"
    /\ state.tasks = AddedTasks
    /\ searchQuery = "READ"
    /\ statusFilter = "completed"
    /\ priorityFilter = <<5>>
    /\ tagFilter = <<"1">>
    /\ Displayed(state) = <<AddedTasks[2]>>

\* the tasks that pass the filters, in the order of the collection
Passing == SelectSeq(state.tasks, LAMBDA t : Count(Displayed(state), t) > 0)

\* a precedes b, or ties with it, in the order of the sort key
InOrder(a, b) ==
    CASE sortBy = "dueDate" -> getTime(a.dueDate) <= getTime(b.dueDate)
      [] sortBy = "priority" -> a.priority >= b.priority
      [] sortBy = "name" -> localeCompare(a.name, b.name) <= 0
      [] sortBy = "createdAt" -> getTime(a.createdAt) >= getTime(b.createdAt)
Ties(a, b) == InOrder(a, b) /\ InOrder(b, a)

\* C14: the displayed sequence is in the order of the sort key, tasks that
\* tie are in the order of the task collection, and the active seed tasks
\* sorted by priority come out as 5, 4, 2.
C14_SortedAndStable ==
    LET D == Displayed(state)
    IN /\ \A i, j \in 1..Len(D) : i < j => InOrder(D[i], D[j])
       /\ \A t \in Range(D) :
             SelectSeq(D, LAMBDA x : Ties(x, t)) = SelectSeq(Passing, LAMBDA x : Ties(x, t))
       /\ (/\ state.tasks = SeedTasks(StartClock)
           /\ statusFilter = "active" /\ sortBy = "priority"
           /\ priorityFilter = <<>> /\ tagFilter = <<>> /\ trim(searchQuery) = "")
          => [i \in 1..Len(D) |-> D[i].priority] = <<5, 4, 2>>

\* The seed tasks, priorities 4, 2, 3, 5 with the third completed, are shown
\* with the status filter "active" and, once picked, sorted by priority.
C14_Witness ==
    /\ last.op = "setSortBy"
    /\ state.tasks = SeedTasks(StartClock)
    /\ [i \in 1..4 |-> state.tasks[i].priority] = <<4, 2, 3, 5>>
    /\ state.tasks[3].completed
    /\ statusFilter = "active"
    /\ sortBy = "priority"
    /\ Len(Displayed(state)) = 3

\* the index, before the move, of the item that is at index k after it
SourceOf(k, s, d) ==
    IF k = d THEN s
    ELSE IF s < d /\ s <= k /\ k < d THEN k + 1
    ELSE IF d < s /\ d < k /\ k <= s THEN k - 1
    ELSE k

\* C16: a drop at a destination makes the task collection the displayed
\* tasks with the dragged one moved from index s to index d, the others in
\* their order, each with its new index as position and nothing else
\* changed; a drop without destination changes nothing.
C16_DropMovesOne ==
    last.op = "handleDragEnd" =>
        IF last.arg[2] = <<>>
        THEN state = prev /\ slot = <<stringify(prev)>>
        ELSE LET shown == Displayed(prev)
                 s == last.arg[1]
                 d == last.arg[2][1]
             IN /\ Len(state.tasks) = Len(shown)
                /\ \A k \in 0..(Len(shown) - 1) :
                      state.tasks[k + 1] =
                         [shown[SourceOf(k, s, d) + 1] EXCEPT !.position = k]
                /\ slot = <<stringify(state)>>

\* The first of four displayed tasks has been dropped at index 2.
C16_Witness ==
    /\ last.op = "handleDragEnd"
    /\ last.arg = <<0, <<2>>>>
    /\ Len(Displayed(prev)) = 4
    /\ state.tasks[3].id = Displayed(prev)[1].id
    /\ state.tasks[1].id = Displayed(prev)[2].id
    /\ state.tasks[3].position = 2

\* the last intent names a task or a tag that the state before it did not
\* have, or is of no known kind
MissingTarget ==
    \/ last.op = "DELETE_TASK" /\ last.arg[1] \notin TaskIds(prev)
    \/ last.op = "TOGGLE_TASK" /\ last.arg[1].id \notin TaskIds(prev)
    \/ last.op = "EDIT_TASK" /\ last.arg[1].id \notin TaskIds(prev)
    \/ last.op = "EDIT_TAG" /\ last.arg[1].id \notin TagIds(prev)
    \/ last.op = "DELETE_TAG" /\ last.arg[1] \notin TagIds(prev)
    \/ last.op = "UNKNOWN"

C21_PriorityFilterUnsetOrInRange ==
    /\ priorityFilter = <<>> \/ priorityFilter[1] \in 1..5
    /\ (last.op = "setPriorityFilter" /\ last.arg[1] = "0") =>
          /\ priorityFilter = <<>>
          /\ \A i \in 1..Len(state.tasks) : matchesPriority(state.tasks[i], priorityFilter)

====
